---- MODULE Spec2Model ----
(***************************************************************************)
(* A model of the shipping GraphQL types of saleor                         *)
(* (saleor/graphql/shipping/types.py) and of the country-coverage utility  *)
(* (saleor/graphql/shop/utils.py).                                         *)
(*                                                                         *)
(* One request is modelled: the resolvers of ShippingMethod and            *)
(* ShippingZone are called on context-wrapped entities, each call either   *)
(* returns, raises, queries the data store or loads a key from a           *)
(* request-scoped dataloader; a dataloader's queue is flushed by Dispatch. *)
(***************************************************************************)
EXTENDS Integers, Sequences, FiniteSets, TLC

(* The attributes of the values of the model, in the order records list them *)

Attributes ==
    [ amount |-> "Money.amount",
      cache |-> "a loader's promises, by key",
      channel_slug |-> "ChannelContext.channel_slug; a listing's channel",
      closure |-> "what a callback closes over",
      countries |-> "a zone's countries",
      effect |-> "what the last call did",
      end |-> "a postal code rule's end",
      error |-> "the exception raised",
      excluded_products |-> "excluded_products",
      id |-> "id",
      info |-> "the last call's info",
      is_external |-> "is_external",
      items |-> "the elements of a list or tuple",
      key |-> "the key loaded",
      keys |-> "the keys of a batch",
      loader |-> "the loader class",
      maximum_order_price |-> "maximum_order_price",
      minimum_order_price |-> "minimum_order_price",
      node |-> "ChannelContext.node",
      op |-> "what a call did: return, raise, query, load",
      permissions |-> "the requestor's permissions",
      price |-> "price",
      qs |-> "the queryset handed to create_connection_slice",
      queue |-> "a loader's keys yet to fetch",
      resolve_maximum_order_price |-> "resolver",
      resolve_minimum_order_price |-> "resolver",
      resolve_price |-> "resolver",
      resolver |-> "the resolver last called",
      results |-> "the utility's results, by argument",
      root |-> "the last call's root",
      shipping_method_id |-> "a row's method",
      shipping_zone_id |-> "a method's zone",
      start |-> "a postal code rule's start",
      state |-> "pending, fulfilled or rejected",
      then |-> "the callback chained with .then",
      type |-> "the class of a value",
      value |-> "a bool, int or str; what a promise is fulfilled with; what a call returns" ]

VARIABLES
    db_zones,       \* ShippingZone rows, in iteration order: each a set of country codes
    db_listings,    \* ShippingMethodChannelListing rows
    dataloaders,    \* info.context.dataloaders: loader name -> [cache, queue]
    batches,        \* every batch_load call of the request, in order
    promises,       \* the promises the resolvers of the request returned, in order
    calls_left,     \* resolver calls the request has yet to make
    last            \* the last call: what was called, on what, and what it did

vars == <<db_zones, db_listings, dataloaders, batches, promises, calls_left, last>>

----------------------------------------------------------------------------
(* Bounds *)

\* ShippingZone rows in the data store (get_countries_codes_list)
MaxZones == 2
\* resolver calls in one request, on any entity
MaxCalls == 1
\* resolver calls in one request, on stored entities of one channel
MaxLoads == 3

----------------------------------------------------------------------------
(* Python values: every value is a record tagged with its type *)

None == [type |-> "NoneType"]
Bool(b) == [type |-> "bool", value |-> b]
PyInt(n) == [type |-> "int", value |-> n]
Str(s) == [type |-> "str", value |-> s]
Money(n) == [amount |-> n, type |-> "Money"]
List(items) == [items |-> items, type |-> "list"]
Tuple(a, b) == [items |-> <<a, b>>, type |-> "tuple"]

\* getattr(obj, name, default): an object is the record of the attributes it carries
getattr(obj, name, default) == IF name \in DOMAIN obj THEN obj[name] ELSE default

\* bool(v)
truthy(v) ==
    CASE v.type = "NoneType" -> FALSE
      [] v.type = "bool" -> v.value
      [] v.type = "int" -> v.value # 0
      [] v.type = "str" -> v.value # ""
      [] v.type = "Money" -> v.amount # 0
      [] v.type = "list" -> v.items # <<>>
      [] OTHER -> TRUE

\* ChannelContext(node=..., channel_slug=...)
ChannelContext(node, channel_slug) ==
    [channel_slug |-> channel_slug, node |-> node, type |-> "ChannelContext"]

EmptyFn == [x \in {} |-> None]

----------------------------------------------------------------------------
(* saleor/graphql/shop/utils.py *)

\* the country reference table (django_countries.countries), cut to three codes
countries == {"DE", "PL", "US"}

\* for zone in ShippingZone.objects.iterator():
\*     covered_countries_codes.update({country.code for country in zone.countries})
RECURSIVE covered_countries_codes(_)
covered_countries_codes(zones) ==
    IF zones = <<>> THEN {}
    ELSE Head(zones).countries \cup covered_countries_codes(Tail(zones))

\* get_countries_codes_list without the subtraction of the covered codes
get_countries_codes_list_uncovered_keeps_all(in_shipping_zones, zones) ==
    LET all_countries_codes == countries
    IN  IF in_shipping_zones # None
        THEN IF truthy(in_shipping_zones)
             THEN covered_countries_codes(zones)
             ELSE all_countries_codes
        ELSE all_countries_codes

get_countries_codes_list(in_shipping_zones, zones) ==
    LET all_countries_codes == countries
    IN  IF in_shipping_zones # None
        THEN IF truthy(in_shipping_zones)
             THEN covered_countries_codes(zones)
             ELSE IF ~truthy(in_shipping_zones)
                  THEN all_countries_codes \ covered_countries_codes(zones)
                  ELSE all_countries_codes
        ELSE all_countries_codes

----------------------------------------------------------------------------
(* graphene.Node.to_global_id: base64 of "<type>:<id>" *)

B64Alphabet ==
    << "A", "B", "C", "D", "E", "F", "G", "H", "I", "J", "K", "L", "M",
       "N", "O", "P", "Q", "R", "S", "T", "U", "V", "W", "X", "Y", "Z",
       "a", "b", "c", "d", "e", "f", "g", "h", "i", "j", "k", "l", "m",
       "n", "o", "p", "q", "r", "s", "t", "u", "v", "w", "x", "y", "z",
       "0", "1", "2", "3", "4", "5", "6", "7", "8", "9", "+", "/" >>

B64Char(n) == B64Alphabet[n + 1]

RECURSIVE b64encode(_)
b64encode(bytes) ==
    IF bytes = <<>> THEN ""
    ELSE IF Len(bytes) = 1
    THEN B64Char(bytes[1] \div 4) \o B64Char((bytes[1] % 4) * 16) \o "=="
    ELSE IF Len(bytes) = 2
    THEN B64Char(bytes[1] \div 4)
         \o B64Char((bytes[1] % 4) * 16 + bytes[2] \div 16)
         \o B64Char((bytes[2] % 16) * 4) \o "="
    ELSE B64Char(bytes[1] \div 4)
         \o B64Char((bytes[1] % 4) * 16 + bytes[2] \div 16)
         \o B64Char((bytes[2] % 16) * 4 + bytes[3] \div 64)
         \o B64Char(bytes[3] % 64)
         \o b64encode(SubSeq(bytes, 4, Len(bytes)))

\* the bytes of str(n), n >= 0
RECURSIVE DecimalBytes(_)
DecimalBytes(n) ==
    IF n < 10 THEN <<48 + n>>
    ELSE Append(DecimalBytes(n \div 10), 48 + (n % 10))

\* the bytes of a type name
TypeNameBytes(type_name) ==
    CASE type_name = "ShippingMethod" ->
            <<83, 104, 105, 112, 112, 105, 110, 103, 77, 101, 116, 104, 111, 100>>
      [] type_name = "ShippingZone" ->
            <<83, 104, 105, 112, 112, 105, 110, 103, 90, 111, 110, 101>>

to_global_id(type_name, id) ==
    Str(b64encode(TypeNameBytes(type_name) \o <<58>> \o DecimalBytes(id.value)))

----------------------------------------------------------------------------
(* What a resolver call does: it returns a value, raises, hands a queryset *)
(* to create_connection_slice (a data-store query), or loads a key from a  *)
(* dataloader built from info.context and chains a callback with .then     *)

Return(value) == [op |-> "return", value |-> value]
Raise(error) == [error |-> error, op |-> "raise"]
Query(qs) == [op |-> "query", qs |-> qs]
Load(loader, key, then) == [key |-> key, loader |-> loader, op |-> "load", then |-> then]

MANAGE_SHIPPING == "shipping.manage_shipping"

\* @permission_required(perm): the resolver runs only if the requestor holds perm
permission_required(perm, info, effect) ==
    IF perm \in info.permissions THEN effect ELSE Raise("PermissionDenied")

----------------------------------------------------------------------------
(* saleor/graphql/shipping/types.py: ShippingMethod *)

\* resolve_id without the is_external test
resolve_id_always_global(root, info) ==
    Return(to_global_id("ShippingMethod", root.node.id))

resolve_id(root, info) ==
    IF truthy(getattr(root.node, "is_external", Bool(FALSE)))
    THEN Return(root.node.id)
    ELSE Return(to_global_id("ShippingMethod", root.node.id))

\* resolve_price without the channel_slug test
resolve_price_without_channel_test(root, info) ==
    LET price == getattr(root.node, "price", None)
    IN  IF price # None THEN Return(price)
        ELSE IF truthy(getattr(root.node, "is_external", Bool(FALSE))) THEN Return(None)
        ELSE Load("ShippingMethodChannelListingByShippingMethodIdAndChannelSlugLoader",
                  Tuple(root.node.id, root.channel_slug),
                  "price")

resolve_price(root, info) ==
    LET price == getattr(root.node, "price", None)
    IN  IF price # None THEN Return(price)
        ELSE IF ~truthy(root.channel_slug) THEN Return(None)
        ELSE IF truthy(getattr(root.node, "is_external", Bool(FALSE))) THEN Return(None)
        ELSE Load("ShippingMethodChannelListingByShippingMethodIdAndChannelSlugLoader",
                  Tuple(root.node.id, root.channel_slug),
                  "price")

\* resolve_maximum_order_price with "if maximum_order_price:" for "is not None"
resolve_maximum_order_price_if_truthy(root, info) ==
    LET maximum_order_price == getattr(root.node, "maximum_order_price", None)
    IN  IF truthy(maximum_order_price) THEN Return(maximum_order_price)
        ELSE IF ~truthy(root.channel_slug) THEN Return(None)
        ELSE IF truthy(getattr(root.node, "is_external", Bool(FALSE))) THEN Return(None)
        ELSE Load("ShippingMethodChannelListingByShippingMethodIdAndChannelSlugLoader",
                  Tuple(root.node.id, root.channel_slug),
                  "maximum_order_price")

resolve_maximum_order_price(root, info) ==
    LET maximum_order_price == getattr(root.node, "maximum_order_price", None)
    IN  IF maximum_order_price # None THEN Return(maximum_order_price)
        ELSE IF ~truthy(root.channel_slug) THEN Return(None)
        ELSE IF truthy(getattr(root.node, "is_external", Bool(FALSE))) THEN Return(None)
        ELSE Load("ShippingMethodChannelListingByShippingMethodIdAndChannelSlugLoader",
                  Tuple(root.node.id, root.channel_slug),
                  "maximum_order_price")

\* resolve_minimum_order_price without the is_external test
resolve_minimum_order_price_loads_external(root, info) ==
    LET minimum_order_price == getattr(root.node, "minimum_order_price", None)
    IN  IF minimum_order_price # None THEN Return(minimum_order_price)
        ELSE IF ~truthy(root.channel_slug) THEN Return(None)
        ELSE Load("ShippingMethodChannelListingByShippingMethodIdAndChannelSlugLoader",
                  Tuple(root.node.id, root.channel_slug),
                  "minimum_order_price")

resolve_minimum_order_price(root, info) ==
    LET minimum_order_price == getattr(root.node, "minimum_order_price", None)
    IN  IF minimum_order_price # None THEN Return(minimum_order_price)
        ELSE IF ~truthy(root.channel_slug) THEN Return(None)
        ELSE IF truthy(getattr(root.node, "is_external", Bool(FALSE))) THEN Return(None)
        ELSE Load("ShippingMethodChannelListingByShippingMethodIdAndChannelSlugLoader",
                  Tuple(root.node.id, root.channel_slug),
                  "minimum_order_price")

resolve_postal_code_rules(root, info) ==
    IF truthy(getattr(root.node, "is_external", Bool(FALSE))) THEN Return(None)
    ELSE Load("PostalCodeRulesByShippingMethodIdLoader", root.node.id, "identity")

\* resolve_channel_listings without the is_external test
resolve_channel_listings_loads_external(root, info) ==
    permission_required(MANAGE_SHIPPING, info,
        Load("ShippingMethodChannelListingByShippingMethodIdLoader",
             root.node.id, "identity"))

resolve_channel_listings(root, info) ==
    permission_required(MANAGE_SHIPPING, info,
        IF truthy(getattr(root.node, "is_external", Bool(FALSE))) THEN Return(None)
        ELSE Load("ShippingMethodChannelListingByShippingMethodIdLoader",
                  root.node.id, "identity"))

\* resolve_excluded_products without @permission_required
resolve_excluded_products_unguarded(root, info) ==
    IF ~truthy(root.node.excluded_products)
    THEN Return(List(<<>>))
    ELSE Query([channel_slug |-> None,
                qs |-> Tuple(root.node.id, Str("excluded_products")),
                type |-> "ChannelQsContext"])

\* Product.objects.none() is an empty queryset that is never sent to the data
\* store; root.node.excluded_products.all() is sliced by create_connection_slice
resolve_excluded_products(root, info) ==
    permission_required(MANAGE_SHIPPING, info,
        IF ~truthy(root.node.excluded_products)
        THEN Return(List(<<>>))
        ELSE Query([channel_slug |-> None,
                    qs |-> Tuple(root.node.id, Str("excluded_products")),
                    type |-> "ChannelQsContext"]))

----------------------------------------------------------------------------
(* saleor/graphql/shipping/types.py: ShippingZone *)

resolve_shipping_methods(root, info) ==
    LET channel_slug == root.channel_slug
    IN  IF truthy(channel_slug)
        THEN Load("ShippingMethodsByShippingZoneIdAndChannelSlugLoader",
                  Tuple(root.node.id, channel_slug),
                  "wrap_shipping_method_with_channel_context")
        ELSE Load("ShippingMethodsByShippingZoneIdLoader",
                  root.node.id,
                  "wrap_shipping_method_with_channel_context")

----------------------------------------------------------------------------
(* The callbacks chained with .then; each is given the loaded value and     *)
(* either returns a value or raises                                         *)

\* lambda channel_listing: channel_listing.price if channel_listing else None
price_then(channel_listing) ==
    IF truthy(channel_listing) THEN Return(channel_listing.price) ELSE Return(None)

\* lambda channel_listing: channel_listing.maximum_order_price
maximum_order_price_then(channel_listing) ==
    IF "maximum_order_price" \in DOMAIN channel_listing
    THEN Return(channel_listing.maximum_order_price)
    ELSE Raise("AttributeError")

\* lambda channel_listing: channel_listing.minimum_order_price
minimum_order_price_then(channel_listing) ==
    IF "minimum_order_price" \in DOMAIN channel_listing
    THEN Return(channel_listing.minimum_order_price)
    ELSE Raise("AttributeError")

\* the wrapper built with channel_slug=None
wrap_shipping_method_without_channel(root, shipping_methods) ==
    Return(List([i \in 1..Len(shipping_methods.items) |->
                    ChannelContext(shipping_methods.items[i], None)]))

\* the closure keeps root: it reads root.channel_slug when it runs
wrap_shipping_method_with_channel_context(root, shipping_methods) ==
    Return(List([i \in 1..Len(shipping_methods.items) |->
                    ChannelContext(shipping_methods.items[i], root.channel_slug)]))

\* promise.then(callback) applied to the value the promise is fulfilled with
then(callback, root, value) ==
    CASE callback = "price" -> price_then(value)
      [] callback = "maximum_order_price" -> maximum_order_price_then(value)
      [] callback = "minimum_order_price" -> minimum_order_price_then(value)
      [] callback = "wrap_shipping_method_with_channel_context" ->
            wrap_shipping_method_with_channel_context(root, value)
      [] callback = "identity" -> Return(value)

----------------------------------------------------------------------------
(* The data store *)

ListingRow(method_id, slug, price, maximum_order_price, minimum_order_price) ==
    [channel_slug |-> Str(slug),
     maximum_order_price |-> maximum_order_price,
     minimum_order_price |-> minimum_order_price,
     price |-> price,
     shipping_method_id |-> PyInt(method_id),
     type |-> "ShippingMethodChannelListing"]

\* the channel listings a data store may hold, in table order
ListingPool ==
    << ListingRow(1, "c1", Money(3), None, Money(0)),
       ListingRow(1, "c2", Money(4), Money(9), Money(1)),
       ListingRow(12, "c1", Money(6), Money(8), Money(2)) >>

RECURSIVE Pick(_, _)
Pick(rows, keep) ==
    IF rows = <<>> THEN <<>>
    ELSE Pick(SubSeq(rows, 1, Len(rows) - 1), keep)
         \o (IF Len(rows) \in keep THEN <<rows[Len(rows)]>> ELSE <<>>)

\* every table that holds at least two rows of the pool
ListingTables ==
    {Pick(ListingPool, keep) : keep \in {k \in SUBSET (1..Len(ListingPool)) : Cardinality(k) >= 2}}

\* ShippingMethod rows: both methods belong to zone 1, zone 2 has none
db_shipping_methods ==
    << [id |-> PyInt(1), shipping_zone_id |-> PyInt(1), type |-> "ShippingMethod"],
       [id |-> PyInt(12), shipping_zone_id |-> PyInt(1), type |-> "ShippingMethod"] >>

\* ShippingMethodPostalCodeRule rows
db_postal_code_rules ==
    << [end |-> Str("99-999"), shipping_method_id |-> PyInt(1),
        start |-> Str("00-001"), type |-> "ShippingMethodPostalCodeRule"] >>

----------------------------------------------------------------------------
(* The dataloaders (saleor/graphql/core/dataloaders.py and                 *)
(* saleor/graphql/shipping/dataloaders.py)                                 *)

Pending == [state |-> "pending"]
Fulfilled(value) == [state |-> "fulfilled", value |-> value]
Rejected(error) == [error |-> error, state |-> "rejected"]

\* what the batch function of a loader finds for one key
fetch(name, key, listings) ==
    CASE name = "ShippingMethodChannelListingByShippingMethodIdAndChannelSlugLoader" ->
            LET Match(r) == /\ r.shipping_method_id = key.items[1]
                            /\ r.channel_slug = key.items[2]
                found == SelectSeq(listings, Match)
            IN  IF found = <<>> THEN None ELSE found[1]
      [] name = "ShippingMethodChannelListingByShippingMethodIdLoader" ->
            LET Match(r) == r.shipping_method_id = key
            IN  List(SelectSeq(listings, Match))
      [] name = "PostalCodeRulesByShippingMethodIdLoader" ->
            LET Match(r) == r.shipping_method_id = key
            IN  List(SelectSeq(db_postal_code_rules, Match))
      [] name = "ShippingMethodsByShippingZoneIdLoader" ->
            LET Match(m) == m.shipping_zone_id = key
            IN  List(SelectSeq(db_shipping_methods, Match))
      [] name = "ShippingMethodsByShippingZoneIdAndChannelSlugLoader" ->
            LET Listed(m) == \E i \in 1..Len(listings) :
                                /\ listings[i].shipping_method_id = m.id
                                /\ listings[i].channel_slug = key.items[2]
                Match(m) == m.shipping_zone_id = key.items[1] /\ Listed(m)
            IN  List(SelectSeq(db_shipping_methods, Match))

\* batch_load(keys): one result per key, in the order of the keys
batch_load(name, keys, listings) ==
    [i \in 1..Len(keys) |-> fetch(name, keys[i], listings)]

\* Loader(info.context): the request's loader of that class, built on first use
DataLoader(context_dataloaders, name) ==
    IF name \in DOMAIN context_dataloaders THEN context_dataloaders
    ELSE [n \in DOMAIN context_dataloaders \cup {name} |->
            IF n \in DOMAIN context_dataloaders THEN context_dataloaders[n]
            ELSE [cache |-> EmptyFn, queue |-> <<>>]]

\* load that does not look the key up in the cache
load_uncached(loader, key) ==
    [cache |-> [k \in DOMAIN loader.cache \cup {key} |->
                    IF k = key THEN Pending ELSE loader.cache[k]],
     queue |-> Append(loader.queue, key)]

\* loader.load(key): the cached promise of the key, or a new one that is queued
load(loader, key) ==
    IF key \in DOMAIN loader.cache THEN loader
    ELSE [cache |-> [k \in DOMAIN loader.cache \cup {key} |->
                        IF k \in DOMAIN loader.cache THEN loader.cache[k] ELSE Pending],
          queue |-> Append(loader.queue, key)]

\* the loader's queue is flushed: one batch_load call, every queued promise settles
dispatch_queue(loader, name, listings) ==
    LET keys == loader.queue
        values == batch_load(name, keys, listings)
        At(k) == CHOOSE i \in 1..Len(keys) : keys[i] = k
    IN  [cache |-> [k \in DOMAIN loader.cache |->
                        IF \E i \in 1..Len(keys) : keys[i] = k
                        THEN Fulfilled(values[At(k)])
                        ELSE loader.cache[k]],
         queue |-> <<>>]

\* the state of the promise a resolver returned: load(key).then(callback)
PromiseState(p) ==
    LET entry == dataloaders[p.loader].cache[p.key]
    IN  IF entry.state = "pending" THEN Pending
        ELSE LET r == then(p.then, p.closure, entry.value)
             IN  IF r.op = "return" THEN Fulfilled(r.value)
                 ELSE Rejected(r.error)

----------------------------------------------------------------------------
(* The inputs of the resolvers *)

MethodIds == {1, 12}
ZoneIds == {1, 2}
ChannelSlugs == {None, Str(""), Str("c1"), Str("c2")}

\* the price fields an earlier step may have set on a node: each of them absent,
\* a zero amount or a positive one
PriceAttrs ==
    { [maximum_order_price |-> Money(5), minimum_order_price |-> None, price |-> Money(0)],
      [maximum_order_price |-> None, minimum_order_price |-> Money(0), price |-> Money(5)],
      [maximum_order_price |-> Money(0), minimum_order_price |-> Money(5), price |-> None] }

\* the nodes: is_external is not an attribute (a stored row), False or True; the
\* price fields are not attributes (a stored row) or set by an earlier step
ShippingMethodNodes ==
    { [id |-> PyInt(i), type |-> "ShippingMethod"] : i \in MethodIds }
    \cup
    { [id |-> PyInt(i), is_external |-> Bool(e), type |-> "ShippingMethod"] :
        i \in MethodIds, e \in BOOLEAN }
    \cup
    { [id |-> PyInt(i),
       maximum_order_price |-> p.maximum_order_price,
       minimum_order_price |-> p.minimum_order_price,
       price |-> p.price,
       type |-> "ShippingMethod"] : i \in MethodIds, p \in PriceAttrs }
    \cup
    { [id |-> PyInt(i),
       is_external |-> Bool(e),
       maximum_order_price |-> p.maximum_order_price,
       minimum_order_price |-> p.minimum_order_price,
       price |-> p.price,
       type |-> "ShippingMethod"] : i \in MethodIds, e \in BOOLEAN, p \in PriceAttrs }

\* the node with its excluded_products attribute
WithExcludedProducts(node, excluded) ==
    CASE DOMAIN node = {"id", "type"} ->
            [excluded_products |-> excluded, id |-> node.id, type |-> node.type]
      [] DOMAIN node = {"id", "is_external", "type"} ->
            [excluded_products |-> excluded, id |-> node.id,
             is_external |-> node.is_external, type |-> node.type]
      [] "is_external" \notin DOMAIN node /\ "price" \in DOMAIN node ->
            [excluded_products |-> excluded, id |-> node.id,
             maximum_order_price |-> node.maximum_order_price,
             minimum_order_price |-> node.minimum_order_price,
             price |-> node.price, type |-> node.type]
      [] "is_external" \in DOMAIN node /\ "price" \in DOMAIN node ->
            [excluded_products |-> excluded, id |-> node.id,
             is_external |-> node.is_external,
             maximum_order_price |-> node.maximum_order_price,
             minimum_order_price |-> node.minimum_order_price,
             price |-> node.price, type |-> node.type]

ShippingMethodRoots ==
    { ChannelContext(node, slug) : node \in ShippingMethodNodes, slug \in ChannelSlugs }

ShippingZoneRoots ==
    { ChannelContext([id |-> PyInt(z), type |-> "ShippingZone"], slug) :
        z \in ZoneIds, slug \in ChannelSlugs }

\* info.context: the permissions of the requestor
Anonymous == [permissions |-> {}]
Infos == {[permissions |-> {}], [permissions |-> {MANAGE_SHIPPING}]}

\* root.node.excluded_products: absent or the related manager of a stored row
ExcludedProducts == {None, [type |-> "ManyRelatedManager"]}

ZoneRow(id, codes) == [countries |-> codes, id |-> PyInt(id), type |-> "ShippingZone"]

\* the tables of at most MaxZones zones, each covering any set of countries
ZoneTables ==
    UNION { { [i \in 1..n |-> ZoneRow(i, f[i])] : f \in [1..n -> SUBSET countries] } :
            n \in 0..MaxZones }

----------------------------------------------------------------------------
(* The request *)

NoCall == [resolver |-> "none"]

Init ==
    /\ db_zones = <<ZoneRow(1, {"PL"}), ZoneRow(2, {"DE", "PL"})>>
    /\ db_listings \in ListingTables
    /\ dataloaders = EmptyFn
    /\ batches = <<>>
    /\ promises = <<>>
    /\ calls_left = MaxCalls
    /\ last = NoCall

\* what the callback chained with .then keeps of the call: the price lambdas
\* close over nothing, wrap_shipping_method_with_channel_context over root
Closure(callback, root) ==
    IF callback = "wrap_shipping_method_with_channel_context" THEN root ELSE None

\* a resolver is called and the engine takes what it did
Call(resolver, root, info, effect) ==
    /\ calls_left > 0
    /\ calls_left' = calls_left - 1
    /\ IF effect.op = "load"
       THEN /\ dataloaders' =
                    [DataLoader(dataloaders, effect.loader) EXCEPT
                        ![effect.loader] = load(@, effect.key)]
            /\ promises' = Append(promises,
                    [closure |-> Closure(effect.then, root), key |-> effect.key,
                     loader |-> effect.loader, then |-> effect.then])
       ELSE UNCHANGED <<dataloaders, promises>>
    /\ last' = [effect |-> effect, info |-> info, resolver |-> resolver, root |-> root]
    /\ UNCHANGED <<db_zones, db_listings, batches>>

ResolveId(root, info) == Call("resolve_id", root, info, resolve_id(root, info))

ResolvePrice(root, info) == Call("resolve_price", root, info, resolve_price(root, info))

ResolveMaximumOrderPrice(root, info) ==
    Call("resolve_maximum_order_price", root, info,
         resolve_maximum_order_price(root, info))

ResolveMinimumOrderPrice(root, info) ==
    Call("resolve_minimum_order_price", root, info,
         resolve_minimum_order_price(root, info))

ResolvePostalCodeRules(root, info) ==
    Call("resolve_postal_code_rules", root, info, resolve_postal_code_rules(root, info))

ResolveChannelListings(root, info) ==
    Call("resolve_channel_listings", root, info, resolve_channel_listings(root, info))

ResolveExcludedProducts(root, info) ==
    Call("resolve_excluded_products", root, info, resolve_excluded_products(root, info))

ResolveShippingMethods(root, info) ==
    Call("resolve_shipping_methods", root, info, resolve_shipping_methods(root, info))

\* the scheduler runs the dispatch a loader scheduled when its queue got a key
Dispatch(name) ==
    /\ name \in DOMAIN dataloaders
    /\ dataloaders[name].queue # <<>>
    /\ batches' = Append(batches, [keys |-> dataloaders[name].queue, loader |-> name])
    /\ dataloaders' = [dataloaders EXCEPT ![name] = dispatch_queue(@, name, db_listings)]
    /\ UNCHANGED <<db_zones, db_listings, promises, calls_left, last>>

LoaderNames ==
    { "ShippingMethodChannelListingByShippingMethodIdAndChannelSlugLoader",
      "ShippingMethodChannelListingByShippingMethodIdLoader",
      "PostalCodeRulesByShippingMethodIdLoader",
      "ShippingMethodsByShippingZoneIdLoader",
      "ShippingMethodsByShippingZoneIdAndChannelSlugLoader" }

Next ==
    \/ \E root \in ShippingMethodRoots : ResolveId(root, Anonymous)
    \/ \E root \in ShippingMethodRoots : ResolvePrice(root, Anonymous)
    \/ \E root \in ShippingMethodRoots : ResolveMaximumOrderPrice(root, Anonymous)
    \/ \E root \in ShippingMethodRoots : ResolveMinimumOrderPrice(root, Anonymous)
    \/ \E root \in ShippingMethodRoots, info \in Infos :
            ResolvePostalCodeRules(root, info)
    \/ \E root \in ShippingMethodRoots, info \in Infos :
            ResolveChannelListings(root, info)
    \/ \E root \in ShippingMethodRoots, info \in Infos, excluded \in ExcludedProducts :
            ResolveExcludedProducts(
                ChannelContext(WithExcludedProducts(root.node, excluded),
                               root.channel_slug),
                info)
    \/ \E root \in ShippingZoneRoots : ResolveShippingMethods(root, Anonymous)
    \/ \E name \in LoaderNames : Dispatch(name)

Spec == Init /\ [][Next]_vars

----------------------------------------------------------------------------
(* A longer request: the resolvers that load, called on the stored methods *)
(* and on a stored zone, in one channel                                    *)

StoredMethodRoots ==
    { ChannelContext([id |-> PyInt(i), type |-> "ShippingMethod"], Str("c1")) :
        i \in MethodIds }

StoredZoneRoots ==
    { ChannelContext([id |-> PyInt(1), type |-> "ShippingZone"], slug) :
        slug \in {None, Str("c1")} }

Staff == [permissions |-> {MANAGE_SHIPPING}]

LoaderInit ==
    /\ db_zones = <<ZoneRow(1, {"PL"}), ZoneRow(2, {"DE", "PL"})>>
    /\ db_listings = ListingPool
    /\ dataloaders = EmptyFn
    /\ batches = <<>>
    /\ promises = <<>>
    /\ calls_left = MaxLoads
    /\ last = NoCall

LoaderNext ==
    \/ \E root \in StoredMethodRoots : ResolvePrice(root, Anonymous)
    \/ \E root \in StoredMethodRoots : ResolveMaximumOrderPrice(root, Anonymous)
    \/ \E root \in StoredMethodRoots : ResolveMinimumOrderPrice(root, Anonymous)
    \/ \E root \in StoredMethodRoots : ResolvePostalCodeRules(root, Anonymous)
    \/ \E root \in StoredMethodRoots : ResolveChannelListings(root, Staff)
    \/ \E root \in StoredZoneRoots : ResolveShippingMethods(root, Anonymous)
    \/ \E name \in LoaderNames : Dispatch(name)

LoaderSpec == LoaderInit /\ [][LoaderNext]_vars

----------------------------------------------------------------------------
(* The country-coverage utility, called on any table of zones *)

CountriesInit ==
    /\ db_zones \in ZoneTables
    /\ db_listings = ListingPool
    /\ dataloaders = EmptyFn
    /\ batches = <<>>
    /\ promises = <<>>
    /\ calls_left = 0
    /\ last = [resolver |-> "get_countries_codes_list", results |-> EmptyFn]

\* last.results keeps what each call returned, by its argument
GetCountriesCodesList(in_shipping_zones) ==
    /\ last' = [last EXCEPT !.results =
                    [a \in DOMAIN @ \cup {in_shipping_zones} |->
                        IF a = in_shipping_zones
                        THEN get_countries_codes_list(in_shipping_zones, db_zones)
                        ELSE @[a]]]
    /\ UNCHANGED <<db_zones, db_listings, dataloaders, batches, promises, calls_left>>

CountriesNext ==
    \E in_shipping_zones \in {None, Bool(TRUE), Bool(FALSE)} :
        GetCountriesCodesList(in_shipping_zones)

CountriesSpec == CountriesInit /\ [][CountriesNext]_vars

----------------------------------------------------------------------------
(* Properties *)

\* a step in which the named resolver is called
Called(resolver) == calls_left' = calls_left - 1 /\ last'.resolver = resolver

\* a step that builds no loader, loads no key and fetches no batch
NoLoaderInvoked == UNCHANGED <<dataloaders, promises, batches>>

External(root) ==
    "is_external" \in DOMAIN root.node /\ root.node.is_external = Bool(TRUE)

NoChannel(root) == root.channel_slug \in {None, Str("")}

\* the pre-computed value the node carries for a field, None if it carries none
Precomputed(root, field) == IF field \in DOMAIN root.node THEN root.node[field] ELSE None

HasPermission(info) == MANAGE_SHIPPING \in info.permissions

ListingLoader == "ShippingMethodChannelListingByShippingMethodIdAndChannelSlugLoader"

PriceResolvers ==
    [resolve_maximum_order_price |-> "maximum_order_price",
     resolve_minimum_order_price |-> "minimum_order_price",
     resolve_price |-> "price"]

\* the channel-listing rows of the data store for a (method id, channel slug) key
ListingsOf(key) ==
    { db_listings[i] : i \in { j \in 1..Len(db_listings) :
        /\ db_listings[j].shipping_method_id = key.items[1]
        /\ db_listings[j].channel_slug = key.items[2] } }

(* C1: whatever the zones, the covered and the uncovered country codes are  *)
(* disjoint and together make the universe that the unfiltered call returns; *)
(* with no zone the covered set is empty and the uncovered set the universe. *)
C1_CoveragePartition ==
    LET r == last.results
        all == None
        covered == Bool(TRUE)
        uncovered == Bool(FALSE)
    IN  /\ all \in DOMAIN r => r[all] = countries
        /\ ({covered, uncovered} \subseteq DOMAIN r) => r[covered] \cap r[uncovered] = {}
        /\ ({all, covered, uncovered} \subseteq DOMAIN r) =>
                r[covered] \cup r[uncovered] = r[all]
        /\ (db_zones = <<>> /\ covered \in DOMAIN r) => r[covered] = {}
        /\ (db_zones = <<>> /\ uncovered \in DOMAIN r) => r[uncovered] = countries

\* all three calls were made on two zones that share a country and leave one uncovered
C1_Witness ==
    /\ DOMAIN last.results = {None, Bool(TRUE), Bool(FALSE)}
    /\ Len(db_zones) = 2
    /\ db_zones[1].countries \cap db_zones[2].countries # {}
    /\ db_zones[1].countries # db_zones[2].countries
    /\ last.results[Bool(FALSE)] # {}

(* C2: a price, maximum_order_price or minimum_order_price promise that has *)
(* settled is fulfilled with None when the data store holds no listing for  *)
(* its key, and with that field of the listing when it holds one.           *)
C2_AbsentWhenNoListing ==
    \A i \in 1..Len(promises) :
        LET p == promises[i]
            st == PromiseState(p)
        IN  (p.loader = ListingLoader /\ st.state # "pending") =>
                IF ListingsOf(p.key) = {}
                THEN st = Fulfilled(None)
                ELSE \E row \in ListingsOf(p.key) : st = Fulfilled(row[p.then])

(* C3, as stated: resolve_price on a root with no channel slug returns None. *)
C3_NoChannelReturnsAbsent ==
    (last.resolver = "resolve_price" /\ NoChannel(last.root)) =>
        last.effect = Return(None)

(* C3, amended: resolve_price on a root with no channel slug invokes no     *)
(* loader; it returns None when the node carries no pre-computed price, and *)
(* the pre-computed price when it carries one.                              *)
C3_NoChannelNoLoader ==
    [][ (Called("resolve_price") /\ NoChannel(last'.root)) =>
            /\ NoLoaderInvoked
            /\ last'.effect = Return(Precomputed(last'.root, "price")) ]_vars

\* resolve_price returned None for a stored method wrapped with no channel slug
C3_Witness ==
    /\ last.resolver = "resolve_price"
    /\ last.root.channel_slug = None
    /\ Precomputed(last.root, "price") = None
    /\ ~External(last.root)
    /\ last.effect = Return(None)
    /\ promises = <<>>

(* C4: on an externally sourced method resolve_postal_code_rules returns    *)
(* None, resolve_channel_listings returns None to a requestor who may       *)
(* manage shipping and denies access to one who may not; neither invokes a  *)
(* loader or queries the data store.                                        *)
C4_ExternalNeverLoads ==
    [][ /\ (Called("resolve_postal_code_rules") /\ External(last'.root)) =>
            /\ last'.effect = Return(None)
            /\ NoLoaderInvoked
        /\ (Called("resolve_channel_listings") /\ External(last'.root)) =>
            /\ last'.effect = IF HasPermission(last'.info)
                              THEN Return(None)
                              ELSE Raise("PermissionDenied")
            /\ NoLoaderInvoked ]_vars

\* resolve_channel_listings returned None for an external method to a requestor
\* who may manage shipping
C4_Witness ==
    /\ last.resolver = "resolve_channel_listings"
    /\ External(last.root)
    /\ HasPermission(last.info)
    /\ last.root.channel_slug = Str("c1")
    /\ last.effect = Return(None)
    /\ dataloaders = EmptyFn

(* C5: a price resolver called on a node that carries a pre-computed value  *)
(* for its field returns that value and invokes no loader, whatever the     *)
(* channel slug and is_external are.                                        *)
C5_PrecomputedReturned ==
    [][ \A resolver \in DOMAIN PriceResolvers :
            (/\ Called(resolver)
             /\ Precomputed(last'.root, PriceResolvers[resolver]) # None) =>
                /\ last'.effect =
                        Return(Precomputed(last'.root, PriceResolvers[resolver]))
                /\ NoLoaderInvoked ]_vars

\* a pre-computed zero maximum_order_price was returned for a stored method of
\* a channel, for which a loader would otherwise be invoked
C5_Witness ==
    /\ last.resolver = "resolve_maximum_order_price"
    /\ Precomputed(last.root, "maximum_order_price") = Money(0)
    /\ last.root.channel_slug = Str("c1")
    /\ ~External(last.root)
    /\ last.effect = Return(Money(0))
    /\ promises = <<>>

(* C6: resolve_channel_listings and resolve_excluded_products called by a   *)
(* requestor who may not manage shipping end in PermissionDenied, which is  *)
(* neither None nor an empty list, and invoke no loader and no query.       *)
C6_DeniedBeforeLoading ==
    [][ \A resolver \in {"resolve_channel_listings", "resolve_excluded_products"} :
            (Called(resolver) /\ ~HasPermission(last'.info)) =>
                /\ last'.effect = Raise("PermissionDenied")
                /\ last'.effect \notin {Return(None), Return(List(<<>>))}
                /\ last'.effect.op \notin {"load", "query"}
                /\ NoLoaderInvoked ]_vars

\* resolve_excluded_products was denied on a stored method with excluded products
C6_Witness ==
    /\ last.resolver = "resolve_excluded_products"
    /\ ~HasPermission(last.info)
    /\ ~External(last.root)
    /\ last.root.node.excluded_products # None
    /\ last.effect = Raise("PermissionDenied")
    /\ dataloaders = EmptyFn

\* how often a batch fetch of the named loader held the key
Fetches(name, key) ==
    Cardinality(UNION { { <<i, j>> : j \in { n \in 1..Len(batches[i].keys) :
                                            batches[i].keys[n] = key } } :
                        i \in { m \in 1..Len(batches) : batches[m].loader = name } })

Queued(name, key) ==
    Cardinality({ j \in 1..Len(dataloaders[name].queue) :
        dataloaders[name].queue[j] = key })

(* C7: in one request every key a resolver loaded is in one batch fetch of  *)
(* its loader at most, once: none while its promise is pending (it is then  *)
(* queued once), one as soon as it is fulfilled; and the value a key was    *)
(* fulfilled with is the value every later load of it gets.                 *)
C7_OneFetchPerKey ==
    /\ [](\A i \in 1..Len(promises) :
            LET p == promises[i]
            IN  /\ p.loader \in DOMAIN dataloaders
                /\ p.key \in DOMAIN dataloaders[p.loader].cache
                /\ Fetches(p.loader, p.key) <= 1
                /\ IF dataloaders[p.loader].cache[p.key].state = "pending"
                   THEN Fetches(p.loader, p.key) = 0 /\ Queued(p.loader, p.key) = 1
                   ELSE Fetches(p.loader, p.key) = 1 /\ Queued(p.loader, p.key) = 0)
    /\ [][ \A name \in DOMAIN dataloaders : \A key \in DOMAIN dataloaders[name].cache :
            dataloaders[name].cache[key].state = "fulfilled" =>
                dataloaders'[name].cache[key] = dataloaders[name].cache[key] ]_vars

\* resolve_price and resolve_maximum_order_price loaded the same key before the
\* dispatch, and a third resolver loaded it again after: one batch was fetched
C7_Witness ==
    /\ Len(promises) = 3
    /\ \A i \in 1..3 : promises[i].loader = ListingLoader /\ promises[i].key = promises[1].key
    /\ promises[1].then = "price"
    /\ promises[2].then = "maximum_order_price"
    /\ last.resolver = "resolve_minimum_order_price"
    /\ Len(batches) = 1
    /\ batches[1].keys = <<promises[1].key>>
    /\ dataloaders[ListingLoader].queue = <<>>

\* the global ids graphene gives the stored shipping methods
GlobalIdOf(id) ==
    CASE id = PyInt(1) -> Str("U2hpcHBpbmdNZXRob2Q6MQ==")
      [] id = PyInt(12) -> Str("U2hpcHBpbmdNZXRob2Q6MTI=")

(* C8: resolve_id returns the node's own id when is_external is set, and    *)
(* the global id of ("ShippingMethod", id) when it is False or not an       *)
(* attribute of the node.                                                   *)
C8_IdResolution ==
    last.resolver = "resolve_id" =>
        IF External(last.root)
        THEN last.effect = Return(last.root.node.id)
        ELSE last.effect = Return(GlobalIdOf(last.root.node.id))

\* the global id of method 12 was returned for a node without is_external
C8_Witness ==
    /\ last.resolver = "resolve_id"
    /\ "is_external" \notin DOMAIN last.root.node
    /\ last.root.node.id = PyInt(12)
    /\ last.effect = Return(Str("U2hpcHBpbmdNZXRob2Q6MTI="))

(* C9: a price resolver loads from the channel-listing loader exactly when  *)
(* the node carries no pre-computed value for its field, the channel slug   *)
(* is non-empty and the node is not external: it then loads the key         *)
(* (node id, channel slug) once; otherwise, with no pre-computed value, it  *)
(* returns None and invokes no loader.                                      *)
C9_LoadsExactlyWhenNeeded ==
    [][ \A resolver \in DOMAIN PriceResolvers :
            Called(resolver) =>
                LET root == last'.root
                    needed == /\ Precomputed(root, PriceResolvers[resolver]) = None
                              /\ ~NoChannel(root)
                              /\ ~External(root)
                    key == Tuple(root.node.id, root.channel_slug)
                IN  /\ (last'.effect.op = "load") <=> needed
                    /\ needed =>
                        /\ last'.effect.loader = ListingLoader
                        /\ last'.effect.key = key
                        /\ Len(promises') = Len(promises) + 1
                        /\ promises'[Len(promises')].loader = ListingLoader
                        /\ promises'[Len(promises')].key = key
                        /\ DOMAIN dataloaders' = DOMAIN dataloaders \cup {ListingLoader}
                        /\ key \in DOMAIN dataloaders'[ListingLoader].cache
                        /\ \A name \in DOMAIN dataloaders :
                                name # ListingLoader =>
                                    dataloaders'[name] = dataloaders[name]
                    /\ (~needed /\ Precomputed(root, PriceResolvers[resolver]) = None) =>
                        /\ last'.effect = Return(None)
                        /\ NoLoaderInvoked ]_vars

\* resolve_minimum_order_price loaded (12, "c2") for a node whose is_external is False
C9_Witness ==
    /\ last.resolver = "resolve_minimum_order_price"
    /\ "is_external" \in DOMAIN last.root.node
    /\ last.root.node.is_external = Bool(FALSE)
    /\ last.effect.op = "load"
    /\ last.effect.key = Tuple(PyInt(12), Str("c2"))
    /\ Len(promises) = 1

ZoneLoaders ==
    {"ShippingMethodsByShippingZoneIdAndChannelSlugLoader",
     "ShippingMethodsByShippingZoneIdLoader"}

(* C10: resolve_shipping_methods loads once: (zone id, channel slug) from   *)
(* the channel-scoped loader when the zone's channel slug is non-empty, the *)
(* zone id from the unscoped loader otherwise; its promise is fulfilled     *)
(* with the loaded methods, in their order, each wrapped with the zone's    *)
(* channel slug, and the key was fetched once.                              *)
C10_ZoneMethodsWrapped ==
    /\ [][ Called("resolve_shipping_methods") =>
            LET root == last'.root
            IN  /\ last'.effect =
                      IF NoChannel(root)
                      THEN Load("ShippingMethodsByShippingZoneIdLoader", root.node.id,
                                "wrap_shipping_method_with_channel_context")
                      ELSE Load("ShippingMethodsByShippingZoneIdAndChannelSlugLoader",
                                Tuple(root.node.id, root.channel_slug),
                                "wrap_shipping_method_with_channel_context")
                /\ Len(promises') = Len(promises) + 1
                /\ promises'[Len(promises')].loader = last'.effect.loader
                /\ promises'[Len(promises')].key = last'.effect.key
                /\ promises'[Len(promises')].closure = root
                /\ batches' = batches ]_vars
    /\ [](\A i \in 1..Len(promises) :
            LET p == promises[i]
                entry == dataloaders[p.loader].cache[p.key]
                st == PromiseState(p)
            IN  (p.loader \in ZoneLoaders /\ entry.state = "fulfilled") =>
                    /\ st.state = "fulfilled"
                    /\ st.value.type = "list"
                    /\ Len(st.value.items) = Len(entry.value.items)
                    /\ \A n \in 1..Len(st.value.items) :
                            /\ st.value.items[n].node = entry.value.items[n]
                            /\ st.value.items[n].channel_slug = p.closure.channel_slug
                    /\ Fetches(p.loader, p.key) = 1)

\* the two methods of zone 1 listed in channel "c1" came back wrapped with "c1"
C10_Witness ==
    /\ last.resolver = "resolve_shipping_methods"
    /\ last.root.channel_slug = Str("c1")
    /\ Len(promises) = 1
    /\ PromiseState(promises[1]).state = "fulfilled"
    /\ Len(PromiseState(promises[1]).value.items) = 2
    /\ PromiseState(promises[1]).value.items[2] =
            ChannelContext(db_shipping_methods[2], Str("c1"))
    /\ Len(batches) = 1

====
